---- MODULE Spec2Model ----
(***************************************************************************)
(* Model of server.js of shop-whatsapp-service: the module-level session   *)
(* state (whatsappClient, isClientReady, clientInitializing,               *)
(* qrCodeDataUrl), the lifecycle event handlers registered in              *)
(* initializeWhatsApp, the reconnect timer, and the POST /send-whatsapp    *)
(* route.  Node runs one callback at a time, so every handler is one       *)
(* atomic action up to its first await; each await is a separate step.     *)
(* The whatsapp-web.js Client is an event emitter outside the repository:  *)
(* every constructed client may emit any lifecycle event at any time       *)
(* (handlers are registered with .on, so they run on every emission).      *)
(***************************************************************************)
EXTENDS Integers, Sequences, FiniteSets, TLC

\* ---- bounds -------------------------------------------------------------
MaxClients == 3      \* Client objects constructed in one run
MaxTimers  == 2      \* reconnect timers pending at once
MaxReqs    == 1      \* POST /send-whatsapp requests in one run
MaxRenders == 1      \* qrcode.toDataURL callbacks pending at once
RateLimitMaxRequests == 2   \* process.env.API_RATE_LIMIT_MAX_REQUESTS
MaxTyped   == 3      \* characters typed around the digits of a phone number
MaxSignals == 2      \* SIGINT/SIGTERM signals delivered in one run

\* ---- program constants --------------------------------------------------
ReconnectDelayMs == 5000
MaxMessageLength == 4096
DefaultMaxRequests == 100

Clients  == 1..MaxClients
Requests == 1..MaxReqs
Sends    == 1..(MaxReqs + 1)           \* requests that overlap in time
null     == 0                       \* whatsappClient = null
nullUrl  == <<>>                    \* qrCodeDataUrl = null

\* ---- JavaScript values that occur in a request body ---------------------
Undef    == [t |-> "undefined", v |-> <<>>]
Str(s)   == [t |-> "string", v |-> s]
Num(n)   == [t |-> "number", v |-> n]
Bool(b)  == [t |-> "boolean", v |-> b]
Null     == [t |-> "null", v |-> <<>>]
Obj      == [t |-> "object", v |-> <<>>]          \* an object or array
Digits   == {"0", "1", "2", "3", "4", "5", "6", "7", "8", "9"}
Blank    == {" "}

TenDigits == <<"9", "8", "7", "6", "5", "4", "3", "2", "1", "0">>
Bodies ==
  { [number |-> Str(TenDigits), message |-> Str(<<"h", "i">>)],
    [number |-> Str(TenDigits), message |-> Undef] }

\* what a caller may put into the two fields
Rep(ch, n) == [i \in 1..n |-> ch]
AnyNumbers ==
  { Undef, Null, Num(0), Num(91), Str(<<>>), Str(TenDigits), Obj }
AnyMessages ==
  { Undef, Null, Bool(FALSE), Num(0), Num(7), Obj,
    Str(<<>>), Str(<<" ">>), Str(Rep(" ", MaxMessageLength + 1)),
    Str(<<"h", "i">>), Str(<<" ", "h", "i", " ">>),
    Str(Rep("a", MaxMessageLength)), Str(Rep("a", MaxMessageLength + 1)),
    Str(<<" ">> \o Rep("a", MaxMessageLength - 1)),
    Str(Rep("a", MaxMessageLength) \o <<" ">>) }
AnyBodies == [number : AnyNumbers, message : AnyMessages]

\* phone numbers as callers write them: up to MaxTyped digits, dashes and
\* blanks, alone or after seven or nine digits, and two full numbers
Typed == UNION { [1..n -> {"5", "-", " "}] : n \in 0..MaxTyped }
PhoneNumbers ==
  (Typed \ {<<>>})
    \cup { Rep("7", 7) \o s : s \in Typed }
    \cup { Rep("7", 9) \o s : s \in Typed }
    \cup { TenDigits,
           <<"+", "9", "1", " ", "9", "8", "7", "6", "5", "-", "4", "3", "2", "1", "0">>,
           <<"a", "b", "c">> }

VARIABLES
  \* program state
  started,             \* the app.listen callback has run
  whatsappClient,      \* null or the id of the Client last constructed
  isClientReady,
  clientInitializing,
  qrCodeDataUrl,       \* null or the data URL last rendered
  timers,              \* delays of the pending setTimeout callbacks, in firing order
  qrRenders,           \* pending qrcode.toDataURL callbacks (their payloads)
  initPromise,         \* Clients whose initialize() promise is unsettled
  reqs,                \* one record per POST /send-whatsapp request
  hits,                \* the rate limiter's store: requests counted per
                       \* client address in its current window
  limiterRes,          \* the rate limiter's answer to the last request:
                       \* NoResponse when it called next()
  served,              \* the last request answered by a route that only
                       \* reads, or by the 404 handler: route and response
  shutdowns,           \* one record per gracefulShutdown call: where it
                       \* stands, the client it destroys and how destroy()
                       \* settled
  exitCode,            \* Running, or the argument of process.exit
  \* history of the lifecycle, written by Observe only
  stopped,             \* Clients that emitted disconnected or auth_failure,
                       \* or whose initialize() was rejected
  awaitingAuth,        \* the spec's state AwaitingAuth: a qr event was the
                       \* last lifecycle transition
  lastInit,            \* how the last initializeWhatsApp() call ended:
                       \* "none", "dropped" by the guard, or "created"
  timerHist,           \* per pending timer: age, the number of timers fired
                       \* since it was scheduled (timers of equal age were
                       \* scheduled with no firing between them: one batch),
                       \* and spent, whether a timer of its batch has already
                       \* created a client
  batchClients,        \* clients created so far by the timers of the batch
                       \* of the timer that created the last one
  \* the emitters of the lifecycle events, written by Emitted only
  lastReady,           \* the Client that emitted the most recent ready event
  lastEmitter          \* the Client whose event the last handler run
                       \* handled: null for start-up and timer

session == <<whatsappClient, isClientReady, clientInitializing, qrCodeDataUrl>>
program == <<started, session, timers, qrRenders, initPromise, reqs>>
limiter == <<hits, limiterRes, served>>
exit    == <<shutdowns, exitCode>>
emitters == <<lastReady, lastEmitter>>
history == <<stopped, awaitingAuth, lastInit, timerHist, batchClients, emitters>>
vars    == <<program, limiter, exit, history>>

\* A request: where its handler stands, the body it came with, the address
\* computed for it, the response sent (status 0: none yet), the calls it
\* made on the external client (each with the value isClientReady had then)
\* and what its catch block saw: the message of the exception and the value
\* of process.env.NODE_ENV.
NoResponse == [status |-> 0]
NoError    == [env |-> "", message |-> ""]
NodeEnvs   == {"development", "production", "undefined"}
ErrorMessages == {"Evaluation failed", "Session closed"}
Addresses  == {"10.0.0.1", "10.0.0.2"}          \* req.ip of the callers
Signals    == 1..MaxSignals
Running    == -1                                \* process.exit was not called
NoShutdown == [pc |-> "idle", client |-> null, destroy |-> "none"]
NoReq == [pc |-> "idle", body |-> [number |-> Undef, message |-> Undef],
          chatId |-> <<>>, res |-> NoResponse, calls |-> <<>>,
          caught |-> NoError]

\* the state after the module was loaded, with a record for each of the
\* requests in slots
InitWith(slots) ==
  /\ started = FALSE
  /\ whatsappClient = null
  /\ isClientReady = FALSE
  /\ clientInitializing = FALSE
  /\ qrCodeDataUrl = nullUrl
  /\ timers = <<>>
  /\ qrRenders = <<>>
  /\ initPromise = {}
  /\ reqs = [r \in slots |-> NoReq]
  /\ hits = [ip \in Addresses |-> 0]
  /\ limiterRes = NoResponse
  /\ served = [route |-> "", res |-> NoResponse]
  /\ shutdowns = [k \in Signals |-> NoShutdown]
  /\ exitCode = Running
  /\ stopped = {}
  /\ awaitingAuth = FALSE
  /\ lastInit = "none"
  /\ timerHist = <<>>
  /\ batchClients = 0
  /\ lastReady = null
  /\ lastEmitter = null

Init == InitWith(Requests)

\* ---- the external Client --------------------------------------------------
\* Clients are numbered in the order of construction, so whatsappClient,
\* the one constructed last, is also their count.
Created   == 1..whatsappClient
NewClient == whatsappClient + 1            \* id of the next `new Client(...)`
QrPayloads == {"qrA"}
toDataURL(qr) == <<"data:image/png;base64", qr>>

\* initializeWhatsApp without the re-entrancy guard of lines 111-114
initializeWhatsApp_NoGuard ==
  /\ clientInitializing' = TRUE
  /\ whatsappClient' = whatsappClient + 1
  /\ initPromise' = initPromise \cup {whatsappClient + 1}
  /\ UNCHANGED <<isClientReady, qrCodeDataUrl>>

\* ---- initializeWhatsApp (server.js 110-223) -------------------------------
\* The body up to and including whatsappClient.initialize(); the handlers it
\* registers are the actions below.
initializeWhatsApp ==
  IF clientInitializing
  THEN UNCHANGED <<session, initPromise>>
  ELSE /\ clientInitializing' = TRUE
       /\ whatsappClient' = NewClient
       /\ initPromise' = initPromise \cup {NewClient}
       /\ UNCHANGED <<isClientReady, qrCodeDataUrl>>

CanInitialize == clientInitializing \/ NewClient <= MaxClients

\* app.listen callback (server.js 540-555)
ServerListen ==
  /\ ~started
  /\ started' = TRUE
  /\ CanInitialize
  /\ initializeWhatsApp
  /\ UNCHANGED <<timers, qrRenders, reqs>>

\* the setTimeout callback of the disconnected handler (server.js 188-192)
ReconnectTimer ==
  /\ timers # <<>>
  /\ CanInitialize
  /\ timers' = Tail(timers)
  /\ initializeWhatsApp
  /\ UNCHANGED <<started, qrRenders, reqs>>

\* whatsappClient.on("qr") (server.js 145-157)
OnQr(c) ==
  /\ c \in Created
  /\ Len(qrRenders) < MaxRenders
  /\ \E qr \in QrPayloads : qrRenders' = Append(qrRenders, qr)
  /\ UNCHANGED <<started, session, timers, initPromise, reqs>>

\* the callback passed to qrcode.toDataURL (server.js 147-155)
QrRendered ==
  /\ \E i \in 1..Len(qrRenders) : \E err \in BOOLEAN :
       /\ qrRenders' = SubSeq(qrRenders, 1, i - 1) \o
                       SubSeq(qrRenders, i + 1, Len(qrRenders))
       /\ qrCodeDataUrl' = IF err THEN qrCodeDataUrl ELSE toDataURL(qrRenders[i])
  /\ UNCHANGED <<started, whatsappClient, isClientReady, clientInitializing,
                 timers, initPromise, reqs>>

\* an authenticated handler that already reports the connection ready
OnAuthenticated_SetsReady(c) ==
  /\ c \in Created
  /\ isClientReady' = TRUE
  /\ UNCHANGED <<started, whatsappClient, clientInitializing, qrCodeDataUrl,
                 timers, qrRenders, initPromise, reqs>>

\* whatsappClient.on("authenticated") (server.js 160-163)
OnAuthenticated(c) ==
  /\ c \in Created
  /\ UNCHANGED program

\* an auth_failure handler that schedules a reconnect as disconnected does
OnAuthFailure_Retries(c) ==
  /\ c \in Created
  /\ Len(timers) < MaxTimers
  /\ isClientReady' = FALSE
  /\ clientInitializing' = FALSE
  /\ timers' = Append(timers, ReconnectDelayMs)
  /\ UNCHANGED <<started, whatsappClient, qrCodeDataUrl, qrRenders,
                 initPromise, reqs>>

\* whatsappClient.on("auth_failure") (server.js 165-170)
OnAuthFailure(c) ==
  /\ c \in Created
  /\ isClientReady' = FALSE
  /\ clientInitializing' = FALSE
  /\ UNCHANGED <<started, whatsappClient, qrCodeDataUrl, timers, qrRenders,
                 initPromise, reqs>>

\* whatsappClient.on("ready") (server.js 173-178)
OnReady(c) ==
  /\ c \in Created
  /\ isClientReady' = TRUE
  /\ clientInitializing' = FALSE
  /\ UNCHANGED <<started, whatsappClient, qrCodeDataUrl, timers, qrRenders,
                 initPromise, reqs>>

\* a disconnected handler that leaves the re-entrancy guard as it is
OnDisconnected_KeepsGuard(c) ==
  /\ c \in Created
  /\ Len(timers) < MaxTimers
  /\ isClientReady' = FALSE
  /\ timers' = Append(timers, ReconnectDelayMs)
  /\ UNCHANGED <<started, whatsappClient, clientInitializing, qrCodeDataUrl,
                 qrRenders, initPromise, reqs>>

\* whatsappClient.on("disconnected") (server.js 181-193)
OnDisconnected(c) ==
  /\ c \in Created
  /\ Len(timers) < MaxTimers
  /\ isClientReady' = FALSE
  /\ clientInitializing' = FALSE
  /\ timers' = Append(timers, ReconnectDelayMs)
  /\ UNCHANGED <<started, whatsappClient, qrCodeDataUrl, qrRenders,
                 initPromise, reqs>>

\* an error handler that also takes the connection out of Ready
OnError_ClearsReady(c) ==
  /\ c \in Created
  /\ isClientReady' = FALSE
  /\ clientInitializing' = FALSE
  /\ UNCHANGED <<started, whatsappClient, qrCodeDataUrl, timers, qrRenders,
                 initPromise, reqs>>

\* whatsappClient.on("error") (server.js 196-203)
OnError(c) ==
  /\ c \in Created
  /\ clientInitializing' = FALSE
  /\ UNCHANGED <<started, whatsappClient, isClientReady, qrCodeDataUrl, timers,
                 qrRenders, initPromise, reqs>>

\* whatsappClient.initialize().catch (server.js 217-222)
InitializeRejected(c) ==
  /\ c \in initPromise
  /\ initPromise' = initPromise \ {c}
  /\ clientInitializing' = FALSE
  /\ UNCHANGED <<started, whatsappClient, isClientReady, qrCodeDataUrl, timers,
                 qrRenders, reqs>>

\* app.get("/qr") (server.js 343-349): the response in the current state
GetQr ==
  IF qrCodeDataUrl # nullUrl
  THEN [status |-> 200, img |-> qrCodeDataUrl]
  ELSE [status |-> 404, img |-> nullUrl]

\* a health route that reports an unready connection as 503
GetHealth_Strict(heapBelowThreshold) ==
  LET checks == [server   |-> "ok",
                 whatsapp |-> IF isClientReady THEN "ok" ELSE "disconnected",
                 memory   |-> IF heapBelowThreshold THEN "ok" ELSE "warning"]
  IN  [status |-> IF checks.whatsapp = "ok" THEN 200 ELSE 503,
       checks |-> checks]

\* app.get("/health") (server.js 351-367): the response in the current state,
\* for a heap below or above the 500 MB threshold
GetHealth(heapBelowThreshold) ==
  LET checks == [server   |-> "ok",
                 whatsapp |-> IF isClientReady THEN "ok" ELSE "disconnected",
                 memory   |-> IF heapBelowThreshold THEN "ok" ELSE "warning"]
  IN  [status |-> IF checks.server = "ok" THEN 200 ELSE 503,
       checks |-> checks]

\* app.get("/") (server.js 302-323)
GetRoot ==
  [status |-> 200,
   service |-> "WhatsApp Backend Service",
   state |-> IF isClientReady THEN "Connected"
             ELSE IF clientInitializing THEN "Connecting"
             ELSE "Disconnected"]

\* app.get("/status") (server.js 325-341)
GetStatus ==
  [status |-> 200, success |-> TRUE,
   whatsappConnected |-> isClientReady,
   clientInitializing |-> clientInitializing]

\* app.use("*") (server.js 481-498): no route matched
NotFound ==
  [status |-> 404, success |-> FALSE, error |-> "Endpoint not found"]

\* the routes in the order they are registered; what a request for a route
\* that only reads is answered in the current state
Routes ==
  {"GET /", "GET /status", "GET /qr", "GET /health", "POST /send-whatsapp",
   "POST /api/messages"}

Serve(route, heapBelowThreshold) ==
  CASE route = "GET /"       -> GetRoot
    [] route = "GET /status" -> GetStatus
    [] route = "GET /qr"     -> GetQr
    [] route = "GET /health" -> GetHealth(heapBelowThreshold)
    [] OTHER                 -> NotFound

\* ---- validateMessageInput (server.js 226-285) ------------------------------
Falsy(x) ==                                        \* !x
  \/ x.t \in {"undefined", "null"}
  \/ x.t = "string" /\ x.v = <<>>
  \/ x.t = "number" /\ x.v = 0
  \/ x.t = "boolean" /\ x.v = FALSE

\* String.prototype.trim, without recursion so that it works on messages
\* of several thousand characters
trimStart(s) ==
  LET first == CHOOSE i \in 1..(Len(s) + 1) :
                 /\ i = Len(s) + 1 \/ s[i] \notin Blank
                 /\ \A j \in 1..(i - 1) : s[j] \in Blank
  IN  SubSeq(s, first, Len(s))

trimEnd(s) ==
  LET last == CHOOSE i \in 0..Len(s) :
                /\ i = 0 \/ s[i] \notin Blank
                /\ \A j \in (i + 1)..Len(s) : s[j] \in Blank
  IN  SubSeq(s, 1, last)

trim(s) == trimEnd(trimStart(s))

\* a validator whose length rule rejects a message of exactly 4096 characters
validateMessageInput_OffByOne(body) ==
  IF Falsy(body.number) \/ Falsy(body.message)
  THEN [status |-> 400,
        error |-> "Both \"number\" and \"message\" fields are required",
        example |-> TRUE]
  ELSE IF body.number.t # "string" \/ body.message.t # "string"
  THEN [status |-> 400, error |-> "Both \"number\" and \"message\" must be strings"]
  ELSE IF Len(trim(body.message.v)) = 0
  THEN [status |-> 400, error |-> "Message cannot be empty"]
  ELSE IF Len(body.message.v) >= MaxMessageLength
  THEN [status |-> 400, error |-> "Message too long (max 4096 characters)"]
  ELSE NoResponse

\* the 400 response, or NoResponse when next() is called
validateMessageInput(body) ==
  IF Falsy(body.number) \/ Falsy(body.message)
  THEN [status |-> 400,
        error |-> "Both \"number\" and \"message\" fields are required",
        example |-> TRUE]
  ELSE IF body.number.t # "string" \/ body.message.t # "string"
  THEN [status |-> 400, error |-> "Both \"number\" and \"message\" must be strings"]
  ELSE IF Len(trim(body.message.v)) = 0
  THEN [status |-> 400, error |-> "Message cannot be empty"]
  ELSE IF Len(body.message.v) > MaxMessageLength
  THEN [status |-> 400, error |-> "Message too long (max 4096 characters)"]
  ELSE NoResponse

\* ---- formatPhoneNumber (server.js 288-299) ---------------------------------
\* a normalizer that puts the country code in front of every number
formatPhoneNumber_AlwaysPrefix(number) ==
  LET cleanNumber == SelectSeq(number, LAMBDA ch : ch \in Digits)
  IN  <<"9", "1">> \o cleanNumber \o <<"@", "c", ".", "u", "s">>

formatPhoneNumber(number) ==
  LET cleanNumber == SelectSeq(number, LAMBDA ch : ch \in Digits)
      formattedNumber == IF Len(cleanNumber) = 10
                         THEN <<"9", "1">> \o cleanNumber
                         ELSE cleanNumber
  IN  formattedNumber \o <<"@", "c", ".", "u", "s">>

\* ---- app.post("/send-whatsapp") (server.js 369-461) ------------------------
Call(fn, arg) ==
  [fn |-> fn, client |-> whatsappClient, arg |-> arg, ready |-> isClientReady]

\* the route without the admission check of lines 373-387
PostSendWhatsapp_NoAdmission(r) ==
  /\ reqs[r].pc = "idle"
  /\ \A q \in Requests : q < r => reqs[q].pc # "idle"
  /\ \E body \in Bodies :
       LET invalid == validateMessageInput(body)
           chatId  == formatPhoneNumber(body.number.v)
       IN  reqs' = [reqs EXCEPT ![r] =
             IF invalid # NoResponse
             THEN [@ EXCEPT !.pc = "done", !.body = body, !.res = invalid]
             ELSE [@ EXCEPT !.pc = "awaitNumberId", !.body = body,
                     !.chatId = chatId,
                     !.calls = Append(@, Call("getNumberId", chatId))]]
  /\ UNCHANGED <<started, session, timers, qrRenders, initPromise>>

\* the route with the admission check in front of the validator
PostSendWhatsapp_AdmissionFirst(r) ==
  /\ reqs[r].pc = "idle"
  /\ \A q \in Requests : q < r => reqs[q].pc # "idle"
  /\ \E body \in Bodies :
       LET invalid == validateMessageInput(body)
           chatId  == formatPhoneNumber(body.number.v)
       IN  reqs' = [reqs EXCEPT ![r] =
             IF ~isClientReady
             THEN [@ EXCEPT !.pc = "done", !.body = body,
                     !.res = [status |-> 503,
                              error |-> "WhatsApp client is not ready. Please wait for connection or scan QR code.",
                              whatsappConnected |-> FALSE,
                              clientInitializing |-> clientInitializing]]
             ELSE IF invalid # NoResponse
             THEN [@ EXCEPT !.pc = "done", !.body = body, !.res = invalid]
             ELSE [@ EXCEPT !.pc = "awaitNumberId", !.body = body,
                     !.chatId = chatId,
                     !.calls = Append(@, Call("getNumberId", chatId))]]
  /\ UNCHANGED <<started, session, timers, qrRenders, initPromise>>

\* a catch block that hands the message of the Error to every caller
SendFailed_Leaks(env, message) ==
  [status |-> 500,
   error |-> "Failed to send message",
   details |-> message]

\* the catch block (server.js 439-460): the 500 response, for the message of
\* the Error caught and the value process.env.NODE_ENV has
SendFailed(env, message) ==
  [status |-> 500,
   error |-> "Failed to send message",
   details |-> IF env = "development" THEN message ELSE "Internal server error"]

\* a handler without try/catch: the rejection ends it without a response
Caught_Unhandled(q, env, message) ==
  [q EXCEPT !.pc = "done",
            !.caught = [env |-> env, message |-> message]]

\* what the catch block makes of request record q
Caught(q, env, message) ==
  [q EXCEPT !.pc = "done",
            !.res = SendFailed(env, message),
            !.caught = [env |-> env, message |-> message]]

\* the route up to its first await, for a request that came with body: the
\* validator, the admission check and the call of getNumberId
SendRoute(r, body) ==
  /\ reqs[r].pc = "idle"
  /\ \A q \in Requests : q < r => reqs[q].pc # "idle"   \* slots are used in order
  /\ LET invalid == validateMessageInput(body)
     IN  reqs' = [reqs EXCEPT ![r] =
           IF invalid # NoResponse
           THEN [@ EXCEPT !.pc = "done", !.body = body, !.res = invalid]
           ELSE IF ~isClientReady
           THEN [@ EXCEPT !.pc = "done", !.body = body,
                   !.res = [status |-> 503,
                            error |-> "WhatsApp client is not ready. Please wait for connection or scan QR code.",
                            whatsappConnected |-> FALSE,
                            clientInitializing |-> clientInitializing]]
           ELSE IF whatsappClient = null      \* TypeError, caught at 439
           THEN [@ EXCEPT !.pc = "done", !.body = body,
                   !.res = SendFailed("undefined", "TypeError")]
           ELSE [@ EXCEPT !.pc = "awaitNumberId", !.body = body,
                   !.chatId = formatPhoneNumber(body.number.v),
                   !.calls = Append(@, Call("getNumberId",
                                            formatPhoneNumber(body.number.v)))]]
  /\ UNCHANGED <<started, session, timers, qrRenders, initPromise>>

PostSendWhatsapp(r) == \E body \in Bodies : SendRoute(r, body)

\* the same route, for every way of writing the number
PostAnyNumber(r) ==
  \E number \in PhoneNumbers :
    SendRoute(r, [number |-> Str(number), message |-> Str(<<"h", "i">>)])

\* the same route, for every kind of body
PostAnyBody(r) == \E body \in AnyBodies : SendRoute(r, body)

\* `await whatsappClient.getNumberId(chatId)` is rejected with an Error
GetNumberIdThrows(r, env, message) ==
  /\ reqs[r].pc = "awaitNumberId"
  /\ reqs' = [reqs EXCEPT ![r] = Caught(@, env, message)]
  /\ UNCHANGED <<started, session, timers, qrRenders, initPromise>>

\* a handler that sends whatever getNumberId resolved with
GetNumberIdResolves_IgnoresNull(r, numberId) ==
  /\ reqs[r].pc = "awaitNumberId"
  /\ reqs' = [reqs EXCEPT ![r] =
       [@ EXCEPT !.pc = "awaitSend",
          !.calls = Append(@, Call("sendMessage", reqs[r].chatId))]]
  /\ UNCHANGED <<started, session, timers, qrRenders, initPromise>>

\* a handler that sends to the number as the caller wrote it
GetNumberIdResolves_SendsRaw(r, numberId) ==
  /\ reqs[r].pc = "awaitNumberId"
  /\ reqs' = [reqs EXCEPT ![r] =
       IF numberId = "null"
       THEN [@ EXCEPT !.pc = "done",
               !.res = [status |-> 404,
                        error |-> "Phone number is not registered on WhatsApp",
                        number |-> reqs[r].body.number]]
       ELSE [@ EXCEPT !.pc = "awaitSend",
               !.calls = Append(@, Call("sendMessage", reqs[r].body.number.v))]]
  /\ UNCHANGED <<started, session, timers, qrRenders, initPromise>>

\* `await whatsappClient.getNumberId(chatId)` resolves, with null or with an
\* id (server.js 400-417)
GetNumberIdResolves(r, numberId) ==
  /\ reqs[r].pc = "awaitNumberId"
  /\ reqs' = [reqs EXCEPT ![r] =
       IF numberId = "null"
       THEN [@ EXCEPT !.pc = "done",
               !.res = [status |-> 404,
                        error |-> "Phone number is not registered on WhatsApp",
                        number |-> reqs[r].body.number]]
       ELSE [@ EXCEPT !.pc = "awaitSend",
               !.calls = Append(@, Call("sendMessage", reqs[r].chatId))]]
  /\ UNCHANGED <<started, session, timers, qrRenders, initPromise>>

\* the await settles; one kind of failure stands for all where only the
\* status of the answer matters
GetNumberIdSettled(r) ==
  \/ \E numberId \in {"null", "id"} : GetNumberIdResolves(r, numberId)
  \/ GetNumberIdThrows(r, "production", "Evaluation failed")

\* the await is rejected, with every message and in every environment
GetNumberIdFails(r) ==
  \E env \in NodeEnvs, message \in ErrorMessages :
    GetNumberIdThrows(r, env, message)

\* a handler that marks the connection as not ready when a send failed
SendMessageThrows_MarksNotReady(r, env, message) ==
  /\ reqs[r].pc = "awaitSend"
  /\ reqs' = [reqs EXCEPT ![r] = Caught(@, env, message)]
  /\ isClientReady' = FALSE
  /\ UNCHANGED <<started, whatsappClient, clientInitializing, qrCodeDataUrl,
                 timers, qrRenders, initPromise>>

\* `await whatsappClient.sendMessage(chatId, message)` is rejected with an Error
SendMessageThrows(r, env, message) ==
  /\ reqs[r].pc = "awaitSend"
  /\ reqs' = [reqs EXCEPT ![r] = Caught(@, env, message)]
  /\ UNCHANGED <<started, session, timers, qrRenders, initPromise>>

\* `await whatsappClient.sendMessage(chatId, message)` resolves (server.js 417-438)
SendMessageResolves(r) ==
  /\ reqs[r].pc = "awaitSend"
  /\ reqs' = [reqs EXCEPT ![r] =
       [@ EXCEPT !.pc = "done",
          !.res = [status |-> 200, to |-> reqs[r].body.number,
                   chatId |-> reqs[r].chatId]]]
  /\ UNCHANGED <<started, session, timers, qrRenders, initPromise>>

SendMessageSettled(r) ==
  \/ SendMessageResolves(r)
  \/ SendMessageThrows(r, "production", "Evaluation failed")

SendMessageFails(r) ==
  \E env \in NodeEnvs, message \in ErrorMessages :
    SendMessageThrows(r, env, message)

\* ---- the rate limiter (server.js 63-74, 88) --------------------------------
\* `limiter` is the middleware express-rate-limit builds from the options of
\* lines 64-74; app.use(limiter) at line 88 puts it in front of the body
\* parser, the logging middleware and every route.  The middleware itself is
\* library code: it counts the request in the store under req.ip and answers
\* 429 with the configured message when the count exceeds max, else next().
max == IF RateLimitMaxRequests = 0           \* parseInt(...) || 100
       THEN DefaultMaxRequests
       ELSE RateLimitMaxRequests

MaxHits == max + 2                 \* requests counted per address and window

TooManyRequests ==
  [status |-> 429,
   error |-> "Too many requests from this IP, please try again later.",
   retryAfter |-> "15 minutes"]

rateLimit(totalHits) == IF totalHits > max THEN TooManyRequests ELSE NoResponse

\* a limiter that counts every request in one store entry
Request_OneCounter(ip) ==
  /\ \A a \in Addresses : hits[a] < MaxHits
  /\ hits' = [a \in Addresses |-> hits[a] + 1]
  /\ limiterRes' = rateLimit(hits[ip] + 1)
  /\ IF rateLimit(hits[ip] + 1) = NoResponse
     THEN \/ \E r \in Requests : PostSendWhatsapp(r)
          \/ UNCHANGED program
     ELSE UNCHANGED program
  /\ UNCHANGED served

\* a limiter mounted on the send route only
RequestTo_LimitsSendOnly(ip, route) ==
  IF route = "POST /send-whatsapp"
  THEN /\ hits[ip] < MaxHits
       /\ hits' = [hits EXCEPT ![ip] = @ + 1]
       /\ limiterRes' = rateLimit(hits[ip] + 1)
       /\ IF rateLimit(hits[ip] + 1) = NoResponse
          THEN \E r \in Requests : PostSendWhatsapp(r)
          ELSE UNCHANGED program
       /\ UNCHANGED served
  ELSE /\ \E heapBelowThreshold \in BOOLEAN :
            served' = [route |-> route, res |-> Serve(route, heapBelowThreshold)]
       /\ UNCHANGED <<program, hits, limiterRes>>

\* one HTTP request from address ip for route: the limiter, then, when it
\* called next(), the route.  The body parser, which runs between the two
\* (server.js 89-93), writes neither the store nor the program state, so
\* limiter and route are one step.
RequestTo(ip, route) ==
  /\ hits[ip] < MaxHits
  /\ hits' = [hits EXCEPT ![ip] = @ + 1]
  /\ limiterRes' = rateLimit(hits[ip] + 1)
  /\ IF rateLimit(hits[ip] + 1) # NoResponse
     THEN UNCHANGED <<program, served>>
     ELSE IF route = "POST /send-whatsapp"
     THEN (\E r \in Requests : PostSendWhatsapp(r)) /\ UNCHANGED served
     ELSE /\ \E heapBelowThreshold \in BOOLEAN :
               served' = [route |-> route, res |-> Serve(route, heapBelowThreshold)]
          /\ UNCHANGED program

Request(ip) == \E route \in Routes : RequestTo(ip, route)

\* windowMs have passed since the first request counted for ip
WindowElapsed(ip) ==
  /\ hits[ip] > 0
  /\ hits' = [hits EXCEPT ![ip] = 0]
  /\ UNCHANGED <<program, limiterRes, served>>

\* ---- gracefulShutdown (server.js 501-520) ------------------------------------
\* a shutdown that does not wait for destroy()
Signal_NoAwait(k) ==
  /\ shutdowns[k].pc = "idle"
  /\ \A j \in Signals : j < k => shutdowns[j].pc # "idle"
  /\ shutdowns' = [shutdowns EXCEPT ![k] =
                     [@ EXCEPT !.pc = "exited", !.client = whatsappClient]]
  /\ exitCode' = 0
  /\ UNCHANGED <<program, limiter>>

\* process.on("SIGINT" / "SIGTERM"): gracefulShutdown up to its await; with
\* no client it goes on to process.exit(0) at once
Signal(k) ==
  /\ shutdowns[k].pc = "idle"
  /\ \A j \in Signals : j < k => shutdowns[j].pc # "idle"  \* slots are used in order
  /\ IF whatsappClient # null
     THEN /\ shutdowns' = [shutdowns EXCEPT ![k] =
                             [@ EXCEPT !.pc = "awaitDestroy",
                                       !.client = whatsappClient]]
          /\ UNCHANGED exitCode
     ELSE /\ shutdowns' = [shutdowns EXCEPT ![k] = [@ EXCEPT !.pc = "exited"]]
          /\ exitCode' = 0
  /\ UNCHANGED <<program, limiter>>

\* `await whatsappClient.destroy()` settles: resolved, or rejected and the
\* error logged; then process.exit(0)
DestroySettled(k, outcome) ==
  /\ shutdowns[k].pc = "awaitDestroy"
  /\ shutdowns' = [shutdowns EXCEPT ![k] =
                     [@ EXCEPT !.pc = "exited", !.destroy = outcome]]
  /\ exitCode' = 0
  /\ UNCHANGED <<program, limiter>>

\* ---- the history of the lifecycle ------------------------------------------
\* What the run of one lifecycle handler adds to the history; ev names the
\* handler, c the client that emitted the event (null for start-up and timer).
Stops(ev)   == ev \in {"disconnected", "auth_failure", "initialize_rejected"}
Calls(ev)   == ev \in {"listen", "timer"}         \* calls initializeWhatsApp()
Creates(ev) == Calls(ev) /\ ~clientInitializing   \* and it constructs a client

Observe(ev, c) ==
  /\ stopped' = IF Stops(ev) THEN stopped \cup {c} ELSE stopped
  /\ awaitingAuth' =
       CASE ev = "qr" -> TRUE
         [] ev \in {"authenticated", "ready", "auth_failure", "disconnected"} -> FALSE
         [] Creates(ev) -> FALSE
         [] OTHER -> awaitingAuth
  /\ lastInit' = IF ~Calls(ev) THEN lastInit
                 ELSE IF clientInitializing THEN "dropped" ELSE "created"
  /\ timerHist' =
       CASE ev = "disconnected" -> Append(timerHist, [age |-> 0, spent |-> FALSE])
         [] ev = "timer" ->
              [i \in 1..(Len(timerHist) - 1) |->
                 [age   |-> timerHist[i + 1].age + 1,
                  spent |-> \/ timerHist[i + 1].spent
                            \/ /\ Creates(ev)
                               /\ timerHist[i + 1].age = timerHist[1].age]]
         [] OTHER -> timerHist
  /\ batchClients' =
       IF ev = "timer" /\ Creates(ev)
       THEN (IF timerHist[1].spent THEN batchClients + 1 ELSE 1)
       ELSE batchClients
  /\ UNCHANGED emitters

\* What the run of one lifecycle handler adds to the record of emitters: the
\* handlers are registered on the instance constructed at line 122, and c is
\* the instance that emitted the event.
Emitted(ev, c) ==
  /\ lastReady' = IF ev = "ready" THEN c ELSE lastReady
  /\ lastEmitter' = c
  /\ UNCHANGED <<stopped, awaitingAuth, lastInit, timerHist, batchClients>>

Live == Created \ stopped                  \* still initializing or operating

\* ---- specifications -------------------------------------------------------
\* The session lifecycle: start-up, the lifecycle events of every constructed
\* client, the reconnect timer and the QR rendering callback.
Next ==
  \/ ServerListen /\ Observe("listen", null) /\ UNCHANGED <<limiter, exit>>
  \/ ReconnectTimer /\ Observe("timer", null) /\ UNCHANGED <<limiter, exit>>
  \/ QrRendered /\ Observe("qr_rendered", null) /\ UNCHANGED <<limiter, exit>>
  \/ \E c \in Clients : OnQr(c) /\ Observe("qr", c) /\ UNCHANGED <<limiter, exit>>
  \/ \E c \in Clients : OnAuthenticated(c) /\ Observe("authenticated", c) /\ UNCHANGED <<limiter, exit>>
  \/ \E c \in Clients : OnAuthFailure(c) /\ Observe("auth_failure", c) /\ UNCHANGED <<limiter, exit>>
  \/ \E c \in Clients : OnReady(c) /\ Observe("ready", c) /\ UNCHANGED <<limiter, exit>>
  \/ \E c \in Clients : OnDisconnected(c) /\ Observe("disconnected", c) /\ UNCHANGED <<limiter, exit>>
  \/ \E c \in Clients : OnError(c) /\ Observe("error", c) /\ UNCHANGED <<limiter, exit>>
  \/ \E c \in Clients : InitializeRejected(c) /\ Observe("initialize_rejected", c) /\ UNCHANGED <<limiter, exit>>

Spec == Init /\ [][Next]_vars

\* The send route for requests the limiter let pass, interleaved with the
\* handlers that write isClientReady, clientInitializing or whatsappClient;
\* the history is not kept.  The
\* initialize().catch is left to Spec: on the variables the route reads it
\* does what the error handler does, which is enabled whenever it is.
NextSend ==
  \/ ServerListen /\ UNCHANGED <<history, limiter, exit>>
  \/ ReconnectTimer /\ UNCHANGED <<history, limiter, exit>>
  \/ \E c \in Clients : OnReady(c) /\ UNCHANGED <<history, limiter, exit>>
  \/ \E c \in Clients : OnAuthFailure(c) /\ UNCHANGED <<history, limiter, exit>>
  \/ \E c \in Clients : OnDisconnected(c) /\ UNCHANGED <<history, limiter, exit>>
  \/ \E c \in Clients : OnError(c) /\ UNCHANGED <<history, limiter, exit>>
  \/ \E r \in Requests : PostSendWhatsapp(r) /\ UNCHANGED <<history, limiter, exit>>
  \/ \E r \in Requests : GetNumberIdSettled(r) /\ UNCHANGED <<history, limiter, exit>>
  \/ \E r \in Requests : SendMessageSettled(r) /\ UNCHANGED <<history, limiter, exit>>

SpecSend == Init /\ [][NextSend]_vars

\* The handlers that write isClientReady, clientInitializing or the timers,
\* with the emitter of every event on record.
NextEmit ==
  \/ ServerListen /\ Emitted("listen", null) /\ UNCHANGED <<limiter, exit>>
  \/ ReconnectTimer /\ Emitted("timer", null) /\ UNCHANGED <<limiter, exit>>
  \/ \E c \in Clients : OnAuthFailure(c) /\ Emitted("auth_failure", c) /\ UNCHANGED <<limiter, exit>>
  \/ \E c \in Clients : OnReady(c) /\ Emitted("ready", c) /\ UNCHANGED <<limiter, exit>>
  \/ \E c \in Clients : OnDisconnected(c) /\ Emitted("disconnected", c) /\ UNCHANGED <<limiter, exit>>
  \/ \E c \in Clients : OnError(c) /\ Emitted("error", c) /\ UNCHANGED <<limiter, exit>>

SpecEmit == Init /\ [][NextEmit]_vars

\* Requests on their way through the limiter and the send route, while the
\* connection becomes ready and fails.
NextLimit ==
  \/ ServerListen /\ UNCHANGED <<history, limiter, exit>>
  \/ \E c \in Clients : OnReady(c) /\ UNCHANGED <<history, limiter, exit>>
  \/ \E c \in Clients : OnAuthFailure(c) /\ UNCHANGED <<history, limiter, exit>>
  \/ \E ip \in Addresses : Request(ip) /\ UNCHANGED <<history, exit>>
  \/ \E ip \in Addresses : WindowElapsed(ip) /\ UNCHANGED <<history, exit>>
  \/ \E r \in Requests : GetNumberIdSettled(r) /\ UNCHANGED <<history, limiter, exit>>
  \/ \E r \in Requests : SendMessageSettled(r) /\ UNCHANGED <<history, limiter, exit>>

SpecLimit == Init /\ [][NextLimit]_vars

\* Requests for every route through the limiter, before and after the
\* connection became ready.  Whether a request is counted and passed on
\* does not depend on how the calls of earlier requests settle, so they are
\* left pending.
NextRoutes ==
  \/ ServerListen /\ UNCHANGED <<history, limiter, exit>>
  \/ \E c \in Clients : OnReady(c) /\ UNCHANGED <<history, limiter, exit>>
  \/ \E ip \in Addresses : Request(ip) /\ UNCHANGED <<history, exit>>
  \/ \E ip \in Addresses : WindowElapsed(ip) /\ UNCHANGED <<history, exit>>

SpecRoutes == Init /\ [][NextRoutes]_vars

\* The validator and the admission check on every kind of request body.
\* What the validator answers depends on the body alone, so one request is
\* followed, before and after the connection became ready.
NextValidate ==
  \/ ServerListen /\ UNCHANGED <<history, limiter, exit>>
  \/ \E c \in Clients : OnReady(c) /\ UNCHANGED <<history, limiter, exit>>
  \/ PostAnyBody(1) /\ UNCHANGED <<history, limiter, exit>>

SpecValidate == Init /\ [][NextValidate]_vars

\* The send route with calls that fail with different messages, in
\* development mode and outside it.
NextFail ==
  \/ ServerListen /\ UNCHANGED <<history, limiter, exit>>
  \/ \E c \in Clients : OnReady(c) /\ UNCHANGED <<history, limiter, exit>>
  \/ \E c \in Clients : OnAuthFailure(c) /\ UNCHANGED <<history, limiter, exit>>
  \/ \E c \in Clients : OnDisconnected(c) /\ UNCHANGED <<history, limiter, exit>>
  \/ \E r \in Requests : PostSendWhatsapp(r) /\ UNCHANGED <<history, limiter, exit>>
  \/ \E r \in Requests : GetNumberIdSettled(r) /\ UNCHANGED <<history, limiter, exit>>
  \/ \E r \in Requests : SendMessageSettled(r) /\ UNCHANGED <<history, limiter, exit>>
  \/ \E r \in Requests : GetNumberIdFails(r) /\ UNCHANGED <<history, limiter, exit>>
  \/ \E r \in Requests : SendMessageFails(r) /\ UNCHANGED <<history, limiter, exit>>

SpecFail == Init /\ [][NextFail]_vars

\* The normalizer on every way of writing a number.  What it returns depends
\* on the number alone, so one request is followed.
NextFormat ==
  \/ ServerListen /\ UNCHANGED <<history, limiter, exit>>
  \/ \E c \in Clients : OnReady(c) /\ UNCHANGED <<history, limiter, exit>>
  \/ PostAnyNumber(1) /\ UNCHANGED <<history, limiter, exit>>

SpecFormat == Init /\ [][NextFormat]_vars

\* Several send requests in flight at once, while the connection becomes
\* ready and is lost.
NextConcurrent ==
  \/ ServerListen /\ UNCHANGED <<history, limiter, exit>>
  \/ \E c \in Clients : OnReady(c) /\ UNCHANGED <<history, limiter, exit>>
  \/ \E c \in Clients : OnAuthFailure(c) /\ UNCHANGED <<history, limiter, exit>>
  \/ \E r \in Sends : PostSendWhatsapp(r) /\ UNCHANGED <<history, limiter, exit>>
  \/ \E r \in Sends : GetNumberIdSettled(r) /\ UNCHANGED <<history, limiter, exit>>
  \/ \E r \in Sends : SendMessageSettled(r) /\ UNCHANGED <<history, limiter, exit>>

SpecConcurrent == InitWith(Sends) /\ [][NextConcurrent]_vars

\* The process until it exits: the connection comes and goes, signals arrive.
Alive == exitCode = Running
NextShutdown ==
  \/ Alive /\ ServerListen /\ UNCHANGED <<history, limiter, exit>>
  \/ Alive /\ ReconnectTimer /\ UNCHANGED <<history, limiter, exit>>
  \/ \E c \in Clients : Alive /\ OnReady(c) /\ UNCHANGED <<history, limiter, exit>>
  \/ \E c \in Clients : Alive /\ OnDisconnected(c) /\ UNCHANGED <<history, limiter, exit>>
  \/ \E k \in Signals : Alive /\ Signal(k) /\ UNCHANGED history
  \/ \E k \in Signals : Alive /\ DestroySettled(k, "resolved") /\ UNCHANGED history
  \/ \E k \in Signals : Alive /\ DestroySettled(k, "rejected") /\ UNCHANGED history

SpecShutdown == Init /\ [][NextShutdown]_vars

\* The channel is unreachable: no client ever becomes ready, clients
\* disconnect and their initialize() is rejected.
NextUnreachable ==
  \/ ServerListen /\ Observe("listen", null) /\ UNCHANGED <<limiter, exit>>
  \/ ReconnectTimer /\ Observe("timer", null) /\ UNCHANGED <<limiter, exit>>
  \/ \E c \in Clients : OnDisconnected(c) /\ Observe("disconnected", c) /\ UNCHANGED <<limiter, exit>>
  \/ \E c \in Clients : InitializeRejected(c) /\ Observe("initialize_rejected", c) /\ UNCHANGED <<limiter, exit>>

SpecUnreachable == Init /\ [][NextUnreachable]_vars

TypeOK ==
  /\ started \in BOOLEAN
  /\ whatsappClient \in {null} \cup Clients
  /\ isClientReady \in BOOLEAN
  /\ clientInitializing \in BOOLEAN
  /\ Len(timers) <= MaxTimers /\ Len(timerHist) \in {0, Len(timers)}
  /\ Len(qrRenders) <= MaxRenders
  /\ initPromise \subseteq Created
  /\ \A r \in Requests : reqs[r].pc \in {"idle", "awaitNumberId", "awaitSend", "done"}
  /\ hits \in [Addresses -> 0..MaxHits]
  /\ limiterRes.status \in {0, 429}
  /\ served.route \in Routes \cup {""}
  /\ exitCode \in {Running, 0}
  /\ \A k \in Signals : shutdowns[k].pc \in {"idle", "awaitDestroy", "exited"}

\* ---- claims ---------------------------------------------------------------
Admitted(r) ==                     \* the step takes request r out of the validator
  /\ reqs[r].pc = "idle" /\ reqs'[r].pc # "idle"
  /\ validateMessageInput(reqs'[r].body) = NoResponse

\* C1: a validated POST /send-whatsapp that arrives while isClientReady is
\* false is answered in that same step with 503, whatsappConnected false and
\* the current clientInitializing, and has called neither getNumberId nor
\* sendMessage; a request answered 503 never made a call.
C1_NotReadyRejected ==
  /\ [][\A r \in Requests :
          (Admitted(r) /\ ~isClientReady) =>
             /\ reqs'[r].pc = "done"
             /\ reqs'[r].res.status = 503
             /\ reqs'[r].res.whatsappConnected = FALSE
             /\ reqs'[r].res.clientInitializing = clientInitializing
             /\ reqs'[r].calls = <<>>]_vars
  /\ [](\A r \in Requests : reqs[r].res.status = 503 => reqs[r].calls = <<>>)

\* a 503 was answered while an initialization was in progress
W_C1_NotReadyRejected ==
  \E r \in Requests :
    /\ reqs[r].pc = "done"
    /\ reqs[r].res.status = 503
    /\ reqs[r].res.clientInitializing

\* C2: every call the send handler makes on the external client (getNumberId,
\* sendMessage) is made while isClientReady is true.
C2_CallsOnlyWhileReady ==
  \A r \in Requests : \A i \in 1..Len(reqs[r].calls) : reqs[r].calls[i].ready

\* C3: at most one constructed client is still initializing or operating.
C3_AtMostOneLiveClient == Cardinality(Live) <= 1

\* C4: the disconnected handler sets isClientReady and clientInitializing to
\* false and appends exactly one timer with delay 5000 to the pending timers;
\* it constructs no client and starts no initialization itself.
C4_DisconnectedSchedulesOneReconnect ==
  [][\A c \in Clients :
       OnDisconnected(c) =>
          /\ ~isClientReady'
          /\ ~clientInitializing'
          /\ Len(timers') = Len(timers) + 1
          /\ SubSeq(timers', 1, Len(timers)) = timers
          /\ timers'[Len(timers')] = 5000
          /\ UNCHANGED <<whatsappClient, initPromise>>]_vars

\* a disconnected event took the connection out of Ready and left a timer
W_C4_DisconnectedSchedulesOneReconnect ==
  /\ timers # <<>>
  /\ timerHist[Len(timerHist)].age = 0
  /\ whatsappClient \in stopped
  /\ ~isClientReady /\ ~clientInitializing

\* C5: once a reconnect has been attempted, the system is never in a state
\* that is not Ready, not initializing and has no reconnect timer pending.
C5_ReconnectNeverGivesUp ==
  (whatsappClient > 1 /\ ~isClientReady /\ ~clientInitializing) => timers # <<>>

\* C6: initializeWhatsApp called with the guard set changes neither
\* whatsappClient, isClientReady, clientInitializing, qrCodeDataUrl nor the
\* set of started clients; called with the guard clear it sets the guard and
\* constructs and starts exactly one client, the new whatsappClient.
C6_InitializeGuard ==
  [][(ServerListen \/ ReconnectTimer) =>
       IF clientInitializing
       THEN UNCHANGED <<whatsappClient, isClientReady, clientInitializing,
                        qrCodeDataUrl, initPromise>>
       ELSE /\ clientInitializing'
            /\ whatsappClient' = whatsappClient + 1
            /\ initPromise' = initPromise \cup {whatsappClient + 1}
            /\ UNCHANGED <<isClientReady, qrCodeDataUrl>>]_vars

\* a reconnect timer fired while an initialization was in progress
W_C6_InitializeGuard ==
  lastInit = "dropped" /\ clientInitializing /\ whatsappClient > 1

\* C7: the timers of one batch (scheduled with no firing between them)
\* create at most one client between them.
C7_BatchCreatesAtMostOne == batchClients <= 1

\* C8 as stated: the error handler leaves isClientReady, clientInitializing,
\* whatsappClient and qrCodeDataUrl as they were.
C8_ErrorChangesNothing ==
  [][\A c \in Clients :
       OnError(c) => UNCHANGED <<isClientReady, clientInitializing,
                                 whatsappClient, qrCodeDataUrl>>]_vars

\* C8 amended: the error handler leaves isClientReady, whatsappClient and
\* qrCodeDataUrl as they were and sets clientInitializing to false.
C8_ErrorClearsOnlyGuard ==
  [][\A c \in Clients :
       OnError(c) => /\ UNCHANGED <<isClientReady, whatsappClient, qrCodeDataUrl>>
                     /\ clientInitializing' = FALSE]_vars

\* the guard is clear although the only client never became ready and never
\* stopped: an error event cleared it
W_C8_ErrorClearsOnlyGuard ==
  /\ started /\ whatsappClient = 1 /\ stopped = {} /\ initPromise = {1}
  /\ ~isClientReady /\ ~clientInitializing

\* C9: outside AwaitingAuth no QR challenge is stored: GET /qr answers 404.
C9_QrOnlyWhileAwaitingAuth == ~awaitingAuth => GetQr.status = 404

\* C10: isClientReady is false initially; the ready handler sets it and
\* clears clientInitializing; only a ready event turns it from false to true;
\* every disconnected and auth_failure event leaves it false.
C10_ReadyOnlyByReadyEvent ==
  /\ ~isClientReady
  /\ [][/\ \A c \in Clients : OnReady(c) => isClientReady' /\ ~clientInitializing'
        /\ (~isClientReady /\ isClientReady') => \E c \in Clients : OnReady(c)
        /\ \A c \in Clients :
             (OnDisconnected(c) \/ OnAuthFailure(c)) => ~isClientReady']_vars

\* a reconnected client became ready
W_C10_ReadyOnlyByReadyEvent ==
  isClientReady /\ ~clientInitializing /\ whatsappClient > 1

C12_StagesInOrder ==
  /\ [][/\ \A ip \in Addresses :
             (Request(ip) /\ hits[ip] >= max) =>
                limiterRes'.status = 429 /\ UNCHANGED reqs
        /\ \A r \in Requests :
             (reqs[r].pc = "idle" /\ reqs'[r].pc # "idle") =>
                /\ limiterRes' = NoResponse
                /\ \E ip \in Addresses : hits[ip] < max /\ hits'[ip] = hits[ip] + 1
                /\ validateMessageInput(reqs'[r].body) # NoResponse =>
                      /\ reqs'[r].pc = "done"
                      /\ reqs'[r].res.status = 400
                      /\ reqs'[r].calls = <<>>]_vars
  /\ [](\A r \in Requests : reqs[r].res.status = 400 => reqs[r].calls = <<>>)

\* an invalid request was answered 400 although no client was ever
\* constructed, and the limiter has rejected the last request
W_C12_StagesInOrder ==
  /\ whatsappClient = null /\ ~isClientReady
  /\ limiterRes.status = 429
  /\ \E r \in Requests : reqs[r].pc = "done" /\ reqs[r].res.status = 400

\* C13: the validator answers with the error of the first violated rule in
\* the order: a field is missing from the body (absent or null), a field is
\* not a string, the message is empty after trimming, the message is longer
\* than 4096; only the missing-field error carries the example payload.
Missing(x) == x.t \in {"undefined", "null"}
AllBlank(m) == \A i \in 1..Len(m) : m[i] \in Blank
C13_FirstViolatedRule ==
  \A r \in Requests :
    reqs[r].pc # "idle" =>
      LET b   == reqs[r].body
          res == reqs[r].res
      IN  IF Missing(b.number) \/ Missing(b.message)
          THEN /\ res.status = 400
               /\ res.error = "Both \"number\" and \"message\" fields are required"
               /\ "example" \in DOMAIN res
          ELSE IF b.number.t # "string" \/ b.message.t # "string"
          THEN /\ res.status = 400
               /\ res.error = "Both \"number\" and \"message\" must be strings"
               /\ "example" \notin DOMAIN res
          ELSE IF AllBlank(b.message.v)
          THEN /\ res.status = 400
               /\ res.error = "Message cannot be empty"
               /\ "example" \notin DOMAIN res
          ELSE IF Len(b.message.v) > MaxMessageLength
          THEN /\ res.status = 400
               /\ res.error = "Message too long (max 4096 characters)"
               /\ "example" \notin DOMAIN res
          ELSE res.status # 400

\* C14: every request the send handler was entered for (it left the route's
\* middleware with something else than a 400) has a number and a message that
\* are non-empty strings, and its message has a non-blank character and at
\* most 4096 characters; with a non-empty string as number, a message of
\* exactly 4096 characters that is not blank enters the handler and every
\* message of 4097 characters is answered 400.
ReachedHandler(r) == reqs[r].pc # "idle" /\ reqs[r].res.status # 400
C14_HandlerSeesValidInput ==
  \A r \in Requests :
    LET number  == reqs[r].body.number
        message == reqs[r].body.message
    IN  /\ ReachedHandler(r) =>
             /\ number.t = "string" /\ number.v # <<>>
             /\ message.t = "string" /\ message.v # <<>>
             /\ ~AllBlank(message.v)
             /\ Len(message.v) <= 4096
        /\ ( /\ reqs[r].pc # "idle"
             /\ number.t = "string" /\ number.v # <<>>
             /\ message.t = "string" ) =>
               /\ (Len(message.v) = 4096 /\ ~AllBlank(message.v)) => ReachedHandler(r)
               /\ Len(message.v) = 4097 => reqs[r].res.status = 400

\* a message of exactly 4096 characters reached getNumberId
W_C14_HandlerSeesValidInput ==
  \E r \in Requests :
    /\ reqs[r].pc = "awaitNumberId"
    /\ Len(reqs[r].body.message.v) = 4096

\* C15: a request from an address that has fewer than max requests counted
\* in its window is passed on (the first request after the window elapsed
\* among them); a request from an address with max or more requests counted
\* is answered 429 with the configured message and changes nothing but the
\* count; a request changes the count of its own address only; the count
\* starts from zero again when the window has elapsed.
C15_MaxPerAddressAndWindow ==
  [][/\ \A ip \in Addresses :
          Request(ip) =>
             /\ hits[ip] < max => limiterRes' = NoResponse
             /\ hits[ip] >= max =>
                   limiterRes' = TooManyRequests /\ UNCHANGED program
             /\ \A other \in Addresses \ {ip} : hits'[other] = hits[other]
     /\ \A ip \in Addresses :
          WindowElapsed(ip) =>
             /\ hits'[ip] = 0 /\ 0 < max
             /\ \A other \in Addresses \ {ip} : hits'[other] = hits[other]]_vars

\* one address is over its allowance, twice rejected, and the request
\* handled last, from the other address, was passed on
W_C15_MaxPerAddressAndWindow ==
  /\ hits["10.0.0.1"] = max + 2
  /\ hits["10.0.0.2"] \in 1..max
  /\ limiterRes = NoResponse

\* C16: when getNumberId resolves with null the request is answered 404 with
\* the number it came with, in that step and without a further call; a
\* request answered 404 has called getNumberId once and sendMessage never.
C16_NotRegisteredNeverSent ==
  /\ [][\A r \in Requests :
          GetNumberIdResolves(r, "null") =>
             /\ reqs'[r].pc = "done"
             /\ reqs'[r].res.status = 404
             /\ reqs'[r].res.number = reqs[r].body.number
             /\ reqs'[r].calls = reqs[r].calls]_vars
  /\ [](\A r \in Requests :
          reqs[r].res.status = 404 =>
             /\ Len(reqs[r].calls) = 1
             /\ reqs[r].calls[1].fn = "getNumberId")

\* a request was answered 404 after its existence check
W_C16_NotRegisteredNeverSent ==
  \E r \in Requests :
    /\ reqs[r].pc = "done" /\ reqs[r].res.status = 404
    /\ Len(reqs[r].calls) = 1

\* C17: a request answered 200 has made exactly two calls, getNumberId and
\* then sendMessage, both with the same address, the normalized one; the
\* answer echoes the number as it came as `to` and the normalized address as
\* chatId; for the number "9876543210" that address is "919876543210@c.us".
C17_SuccessPath ==
  \A r \in Requests :
    reqs[r].res.status = 200 =>
      /\ Len(reqs[r].calls) = 2
      /\ reqs[r].calls[1].fn = "getNumberId"
      /\ reqs[r].calls[2].fn = "sendMessage"
      /\ reqs[r].calls[2].arg = reqs[r].calls[1].arg
      /\ reqs[r].res.to = reqs[r].body.number
      /\ reqs[r].res.chatId = reqs[r].calls[2].arg
      /\ reqs[r].body.number = Str(<<"9", "8", "7", "6", "5", "4", "3", "2", "1", "0">>) =>
            reqs[r].res.chatId = <<"9", "1", "9", "8", "7", "6", "5", "4", "3", "2",
                                   "1", "0", "@", "c", ".", "u", "s">>

\* a message to "9876543210" was sent while the connection was ready at both
\* calls
W_C17_SuccessPath ==
  \E r \in Requests :
    /\ reqs[r].pc = "done" /\ reqs[r].res.status = 200
    /\ reqs[r].res.to = Str(TenDigits)
    /\ reqs[r].calls[1].ready /\ reqs[r].calls[2].ready

\* C18: when getNumberId or sendMessage is rejected with an Error, the
\* handler answers in that step with 500 "Failed to send message" and ends;
\* the step leaves whatsappClient, isClientReady, clientInitializing and the
\* rest of the program state as they were; a response, once sent, is never
\* replaced by another.
C18_ExceptionsBecome500 ==
  [][/\ \A r \in Requests, env \in NodeEnvs, message \in ErrorMessages :
          (GetNumberIdThrows(r, env, message) \/ SendMessageThrows(r, env, message)) =>
             /\ reqs'[r].pc = "done"
             /\ reqs'[r].res.status = 500
             /\ reqs'[r].res.error = "Failed to send message"
             /\ reqs'[r].calls = reqs[r].calls
             /\ UNCHANGED <<started, session, timers, qrRenders, initPromise>>
     /\ \A r \in Requests :
          /\ reqs[r].res.status # 0 => reqs'[r].res = reqs[r].res
          /\ reqs[r].pc = "done" => reqs[r].res.status # 0]_vars

\* sendMessage was rejected, the request got its 500 and the connection is
\* still ready
W_C18_ExceptionsBecome500 ==
  \E r \in Requests :
    /\ reqs[r].pc = "done" /\ reqs[r].res.status = 500
    /\ reqs[r].caught # NoError
    /\ Len(reqs[r].calls) = 2
    /\ isClientReady

\* C19: when NODE_ENV is not "development", the 500 response of the catch
\* block is the same record whatever the message of the Error was: status
\* 500, error "Failed to send message", details "Internal server error"; when
\* NODE_ENV is "development", details is the message of the Error.
C19_DetailsOnlyInDevelopment ==
  \A r \in Requests :
    reqs[r].res.status = 500 =>
      IF reqs[r].caught.env = "development"
      THEN /\ reqs[r].res.error = "Failed to send message"
           /\ reqs[r].res.details = reqs[r].caught.message
      ELSE reqs[r].res = [status |-> 500,
                          error |-> "Failed to send message",
                          details |-> "Internal server error"]

\* outside development mode a call failed with "Session closed" and the
\* request was answered
W_C19_DetailsOnlyInDevelopment ==
  \E r \in Requests :
    /\ reqs[r].res.status = 500
    /\ reqs[r].caught = [env |-> "production", message |-> "Session closed"]

\* C20: in every state GET /health answers 200, whatever the heap size; its
\* whatsapp check is "ok" when isClientReady is true and "disconnected" when
\* it is false.
C20_HealthAlways200 ==
  \A heapBelowThreshold \in BOOLEAN :
    LET health == GetHealth(heapBelowThreshold)
    IN  /\ health.status = 200
        /\ isClientReady => health.checks.whatsapp = "ok"
        /\ ~isClientReady => health.checks.whatsapp = "disconnected"

\* the server runs, its client has stopped and the connection is not ready:
\* GET /health still answers 200
W_C20_HealthAlways200 ==
  /\ started /\ ~isClientReady /\ whatsappClient \in stopped
  /\ GetHealth(TRUE).status = 200
  /\ GetHealth(TRUE).checks.whatsapp = "disconnected"

\* C21: the address computed for a request is the digits of its number, in
\* their order and with every other character removed, followed by "@c.us";
\* "91" is put in front when there are exactly 10 digits and in no other
\* case, zero digits included.
RECURSIVE OnlyDigits(_)
OnlyDigits(s) ==
  IF s = <<>> THEN <<>>
  ELSE IF Head(s) \in {"0", "1", "2", "3", "4", "5", "6", "7", "8", "9"}
       THEN <<Head(s)>> \o OnlyDigits(Tail(s))
       ELSE OnlyDigits(Tail(s))

C21_NormalizedAddress ==
  \A r \in Requests :
    reqs[r].pc = "awaitNumberId" =>
      LET d == OnlyDigits(reqs[r].body.number.v)
      IN  /\ Len(d) = 10 =>
               reqs[r].chatId = <<"9", "1">> \o d \o <<"@", "c", ".", "u", "s">>
          /\ Len(d) # 10 =>
               reqs[r].chatId = d \o <<"@", "c", ".", "u", "s">>
          /\ reqs[r].calls[1].arg = reqs[r].chatId

\* a number written with ten digits and a separator got the prefix
W_C21_NormalizedAddress ==
  \E r \in Requests :
    /\ reqs[r].pc = "awaitNumberId"
    /\ Len(reqs[r].body.number.v) > 10
    /\ Len(reqs[r].chatId) = 17
    /\ reqs[r].chatId[1] = "9" /\ reqs[r].chatId[2] = "1" /\ reqs[r].chatId[3] = "7"

\* C22: every step in which a send request advances or is answered, with
\* 400, 503, 404, 500 or 200 and with other requests in flight, leaves
\* whatsappClient, isClientReady, clientInitializing and qrCodeDataUrl as
\* they were.
C22_SendOnlyReads ==
  [][\A r \in Sends : reqs'[r] # reqs[r] => UNCHANGED session]_vars

\* two requests are in flight at once, one awaiting sendMessage and one
\* awaiting getNumberId, and the connection is ready
W_C22_SendOnlyReads ==
  /\ isClientReady
  /\ \E r, q \in Sends :
       /\ r # q
       /\ reqs[r].pc = "awaitSend"
       /\ reqs[q].pc = "awaitNumberId"

\* C23: a signal that finds a client calls destroy() on it and does not
\* exit in that step; the process exits only in the step in which a
\* shutdown's destroy() settles, resolved or rejected, or in which a signal
\* finds no client; the exit code is 0 in each of these cases.
C23_ExitAfterDestroySettled ==
  [][/\ \A k \in Signals :
          (Signal(k) /\ whatsappClient # null) =>
             /\ exitCode' = Running
             /\ shutdowns'[k].pc = "awaitDestroy"
             /\ shutdowns'[k].client = whatsappClient
     /\ \A k \in Signals, outcome \in {"resolved", "rejected"} :
          DestroySettled(k, outcome) => exitCode' = 0
     /\ exitCode' # exitCode =>
          /\ exitCode' = 0
          /\ \E k \in Signals :
               \/ Signal(k) /\ whatsappClient = null
               \/ \E outcome \in {"resolved", "rejected"} : DestroySettled(k, outcome)]_vars

\* the process has exited with code 0 after destroy() of the current client
\* was rejected
W_C23_ExitAfterDestroySettled ==
  /\ exitCode = 0
  /\ \E k \in Signals :
       /\ shutdowns[k].pc = "exited"
       /\ shutdowns[k].destroy = "rejected"
       /\ shutdowns[k].client = whatsappClient

\* C24: a POST to /api/messages is answered with status 200 and success true.
C24_ApiMessagesSucceeds ==
  served.route = "POST /api/messages" =>
    served.res.status = 200 /\ served.res.success = TRUE

\* C25: isClientReady and clientInitializing are never both true: GET /status
\* never reports whatsappConnected and clientInitializing both true, and
\* GET / never answers "Connected" while clientInitializing is true.
C25_ReadyExcludesInitializing ==
  /\ ~(isClientReady /\ clientInitializing)
  /\ ~(GetStatus.whatsappConnected /\ GetStatus.clientInitializing)
  /\ GetRoot.state = "Connected" => ~clientInitializing

\* C26: the readiness flag describes the current client: while isClientReady
\* is true, whatsappClient is the client that emitted the most recent ready
\* event; and the handler run for an event of a client that has been
\* replaced leaves isClientReady, clientInitializing and the pending
\* reconnect timers as they were.
C26_FlagsDescribeCurrentClient ==
  /\ [](isClientReady => whatsappClient = lastReady)
  /\ [][(lastEmitter' # null /\ lastEmitter' # whatsappClient) =>
          UNCHANGED <<isClientReady, clientInitializing, timers>>]_vars

\* C27: within one send request getNumberId and sendMessage are called on
\* the same client instance, whatever happens between the two awaits.
C27_SameClientForBothCalls ==
  \A r \in Requests :
    Len(reqs[r].calls) = 2 =>
      reqs[r].calls[1].client = reqs[r].calls[2].client

\* C28: the limiter stands in front of every route: a request for any
\* route, known or not, is counted in the one window of its address; once
\* the address has max requests counted, a request for any route is
\* answered 429 and reaches no route; and a route or the 404 handler
\* answers only in a step in which the limiter counted the request and
\* called next().
C28_LimiterBeforeEveryRoute ==
  [][/\ \A ip \in Addresses, route \in Routes :
          RequestTo(ip, route) =>
             /\ hits'[ip] = hits[ip] + 1
             /\ hits[ip] >= max =>
                   limiterRes' = TooManyRequests /\ UNCHANGED <<program, served>>
     /\ served' # served =>
          /\ limiterRes' = NoResponse
          /\ \E ip \in Addresses : hits[ip] < max /\ hits'[ip] = hits[ip] + 1]_vars

\* one address used up its window with requests for different routes, the
\* health route and the send route among them, and its next request was
\* rejected; the other address sent nothing
W_C28_LimiterBeforeEveryRoute ==
  /\ hits["10.0.0.1"] = max + 1
  /\ hits["10.0.0.2"] = 0
  /\ limiterRes = TooManyRequests
  /\ served.route = "GET /health"
  /\ \E r \in Requests : reqs[r].pc # "idle"
====
